---- MODULE Spec2Model ----
(***************************************************************************)
(* Model of the interview wizard of Tanguyvans/the_interview:              *)
(*   app.py    the Streamlit front end (initialize_session_state,          *)
(*             process_response, main)                                     *)
(*   main.py   the command-line interview (evaluate_response,              *)
(*             determine_next_question, save_interview_state,              *)
(*             conduct_interview) and the module-level interview_form      *)
(*   utils.py  a second InterviewMemory and evaluate_response, and         *)
(*             save_chat_history / load_chat_history                       *)
(* Python strings are TLA+ strings; the string functions the code uses     *)
(* (lower, strip, in, replace, join) are computed character by character.  *)
(***************************************************************************)
EXTENDS Integers, Sequences, FiniteSets, TLC

VARIABLES
    prog,             \* which entry point of the repository is running
    api_key,          \* app: whether OPENAI_API_KEY is set for the server process
    interview_form,   \* main.interview_form: the module-level dict of field dicts
    other_sessions,   \* app: the session states of the earlier browser sessions
    messages,         \* app: st.session_state.messages (the transcript)
    memory,           \* the InterviewMemory of the session / of conduct_interview
    current_field,    \* the current-topic pointer (None when there is none)
    current_question, \* cli: the question conduct_interview prints next
    pc,               \* cli and harnesses: position of the control loop
    json_file,        \* cli: content of the interview_state_*.json file
    chat_file,        \* utils: content of chat_history/interview.json
    loaded,           \* utils: what load_chat_history returned last
    evaluation,       \* utils: what utils.evaluate_response returned last
    negative,         \* what the is_negative_response copies returned last
    next_question     \* main: the call of determine_next_question and its result

vars == <<prog, api_key, interview_form, other_sessions, messages, memory, current_field,
          current_question, pc, json_file, chat_file, loaded, evaluation,
          negative, next_question>>

---------------------------------------------------------------------------
(* Bounds of the model *)

\* user inputs the server process of the app accepts, over all its sessions
MaxTurns == 8
\* non-negative answers a process evaluates (app: over all its sessions)
MaxAnswers == 2
\* responses the caller of utils.py adds to its InterviewMemory before saving
MaxStored == 3
\* browser sessions the server process of the app serves
MaxSessions == 2

---------------------------------------------------------------------------
(* Python values *)

None == "None"
\* a file that does not exist; a function that has not been called
NotWritten == [written |-> FALSE]
NotCalled == [called |-> FALSE]
Str(s) == [type |-> "str", v |-> s]
EmptyList == [type |-> "list", v |-> <<>>]

UpperCase == "ABCDEFGHIJKLMNOPQRSTUVWXYZ"
LowerCase == "abcdefghijklmnopqrstuvwxyz"
Whitespace == {" ", "\t", "\n", "\r"}

CharAt(s, i) == SubSeq(s, i, i)

LowerChar(c) ==
    IF \E i \in 1..Len(UpperCase) : CharAt(UpperCase, i) = c
    THEN CharAt(LowerCase, CHOOSE i \in 1..Len(UpperCase) : CharAt(UpperCase, i) = c)
    ELSE c

\* str.lower()
RECURSIVE lower(_)
lower(s) == IF Len(s) = 0 THEN "" ELSE LowerChar(CharAt(s, 1)) \o lower(SubSeq(s, 2, Len(s)))

\* str.strip()
RECURSIVE lstrip(_)
lstrip(s) ==
    IF Len(s) > 0 /\ CharAt(s, 1) \in Whitespace THEN lstrip(SubSeq(s, 2, Len(s))) ELSE s
RECURSIVE rstrip(_)
rstrip(s) ==
    IF Len(s) > 0 /\ CharAt(s, Len(s)) \in Whitespace THEN rstrip(SubSeq(s, 1, Len(s) - 1)) ELSE s
strip(s) == rstrip(lstrip(s))

\* sub in s
Contains(s, sub) ==
    \E i \in 0..(Len(s) - Len(sub)) : SubSeq(s, i + 1, i + Len(sub)) = sub

\* s.replace('_', ' ')
RECURSIVE replace_underscores(_)
replace_underscores(s) ==
    IF Len(s) = 0 THEN ""
    ELSE (IF CharAt(s, 1) = "_" THEN " " ELSE CharAt(s, 1))
         \o replace_underscores(SubSeq(s, 2, Len(s)))

\* " ".join(list)
RECURSIVE join(_)
join(list) ==
    IF Len(list) = 0 THEN ""
    ELSE IF Len(list) = 1 THEN list[1]
    ELSE list[1] \o " " \o join(Tail(list))

---------------------------------------------------------------------------
(* The catalog: interview_form's keys in insertion order, FIELD_REQUIREMENTS *)

Fields == <<"name", "current_role", "years_of_experience", "technical_skills",
            "project_experience", "motivation", "preferred_work_environment">>
FieldSet == {Fields[i] : i \in 1..Len(Fields)}

\* fields.index(field)
Index(field) == CHOOSE i \in 1..Len(Fields) : Fields[i] = field

\* the module-level interview_form as the module is imported
InitialForm ==
    [f \in FieldSet |->
        [value |-> IF f = "technical_skills" THEN EmptyList ELSE Str(""),
         satisfaction |-> 0]]

\* FIELD_REQUIREMENTS[field]['follow_up_questions'][0]
FirstFollowUp(field) ==
    CASE field = "name" -> "Could you spell your full name for me?"
      [] field = "current_role" -> "What are your main responsibilities in this role?"
      [] field = "years_of_experience" -> "How long have you been working in this field specifically?"
      [] field = "technical_skills" -> "Could you rate your proficiency in each skill mentioned?"
      [] field = "project_experience" -> "What was your specific role in these projects?"
      [] field = "motivation" -> "What interests you most about this position?"
      [] field = "preferred_work_environment" -> "What type of company culture do you thrive in?"

OpeningQuestion == "Could you please tell me your full name?"

\* a successor that wraps around at the end of the catalog
NextFieldWrapping(field) == Fields[(Index(field) % Len(Fields)) + 1]

\* fields[current_index + 1] if current_index + 1 < len(fields) else None
NextField(field) ==
    IF Index(field) + 1 <= Len(Fields) THEN Fields[Index(field) + 1] ELSE None

---------------------------------------------------------------------------
(* Python dicts as functions on the keys present; defaultdict reads *)

EmptyDict == [k \in {} |-> ""]
DictGet(d, k, default) == IF k \in DOMAIN d THEN d[k] ELSE default
\* an assignment that drops every other key of the dict
DictSetDroppingOthers(d, k, v) == [x \in {k} |-> v]

\* d[k] = v
DictSet(d, k, v) == [x \in (DOMAIN d) \cup {k} |-> IF x = k THEN v ELSE d[x]]

(* InterviewMemory of main.py (the class app.py imports) *)

NewMemory == [field_memory |-> EmptyDict, current_responses |-> EmptyDict]

\* an add_response whose combined string keeps the latest response only
add_response_latest_only(mem, field, response) ==
    [field_memory |-> DictSet(mem.field_memory, field,
                              Append(DictGet(mem.field_memory, field, <<>>), response)),
     current_responses |-> DictSet(mem.current_responses, field, response)]

add_response(mem, field, response) ==
    LET fm == DictSet(mem.field_memory, field,
                      Append(DictGet(mem.field_memory, field, <<>>), response))
    IN  [field_memory |-> fm,
         current_responses |-> DictSet(mem.current_responses, field, join(fm[field]))]

get_field_history(mem, field) == DictGet(mem.current_responses, field, "")

\* the accumulator's raw-utterance list of a topic
AllResponses(mem, field) == DictGet(mem.field_memory, field, <<>>)

\* number of responses a memory holds
RECURSIVE SumLen(_, _)
SumLen(d, keys) ==
    IF keys = {} THEN 0
    ELSE LET k == CHOOSE x \in keys : TRUE IN Len(d[k]) + SumLen(d, keys \ {k})
Accumulated(mem) == SumLen(mem.field_memory, DOMAIN mem.field_memory)

---------------------------------------------------------------------------
(* NegativeResponseDetector: the keyword copies of app.py and main.py *)

AppNegativeIndicators ==
    <<"no", "none", "nothing", "don't have", "do not have",
      "nothing comes to mind", "haven't done any", "i don't",
      "no experience", "no projects">>

MainNegativeIndicators ==
    <<"no", "none", "nothing", "don't have", "do not have",
      "nothing comes to mind", "haven't done any">>

AnyIndicatorIn(indicators, response) ==
    LET response_lower == strip(lower(response))
    IN  \E i \in 1..Len(indicators) : Contains(response_lower, indicators[i])

app_is_negative_response(response) == AnyIndicatorIn(AppNegativeIndicators, response)
main_is_negative_response(response) == AnyIndicatorIn(MainNegativeIndicators, response)

---------------------------------------------------------------------------
(* The judge: an opaque call that raises, or returns text json.loads parses *)

VerdictKeys == {"satisfaction_score", "missing_info", "follow_up_question", "analysis", "summary"}

\* a dict the judge's reply parses to: the keys present and their values
JudgeDict(score) ==
    [keys |-> VerdictKeys,
     satisfaction_score |-> score,
     missing_info |-> "team size",
     follow_up_question |-> "Could you tell me more?",
     analysis |-> "partial answer",
     summary |-> "summary so far",
     skip_topic |-> FALSE]

JudgeScores == {0, 6, 7, 11}

\* ok = FALSE: the call raised or its text is not JSON
JudgeFailure == [ok |-> FALSE, dict |-> JudgeDict(0)]
JudgeReplies ==
    {JudgeFailure}
    \cup {[ok |-> TRUE, dict |-> JudgeDict(s)] : s \in JudgeScores}
    \cup {[ok |-> TRUE, dict |-> [JudgeDict(0) EXCEPT !.keys = @ \ {"satisfaction_score"}]]}

\* the fields the evaluation prompt of utils.py asks the judge for
RequiredKeys == {"satisfaction_score", "analysis", "missing_info", "follow_up_question"}

\* replies that parse as JSON but lack one or all of the required fields
IncompleteReplies ==
    {[ok |-> TRUE, dict |-> [JudgeDict(6) EXCEPT !.keys = @ \ {k}]] : k \in RequiredKeys}
    \cup {[ok |-> TRUE, dict |-> [JudgeDict(6) EXCEPT !.keys = @ \ RequiredKeys]]}

\* what the user types: a refusal, or the next of the answers of a script
Refusal == "No"
Answers == <<"Jo", "Al", "Li", "Ed">>
Utterances == {Refusal} \cup {Answers[i] : i \in 1..Len(Answers)}

\* the detectors' answers on the inputs of the model, computed once
AppNegative == [u \in Utterances |-> app_is_negative_response(u)]
MainNegative == [u \in Utterances |-> main_is_negative_response(u)]

\* field.replace('_', ' ') for the fields of the catalog, computed once
Label == [f \in FieldSet |-> replace_underscores(f)]

---------------------------------------------------------------------------
(* main.evaluate_response *)

SkipVerdict(field) ==
    [keys |-> VerdictKeys \cup {"skip_topic"},
     satisfaction_score |-> 0,
     missing_info |-> "Candidate has no experience in this area",
     follow_up_question |-> "",
     analysis |-> "Candidate clearly indicated no experience in this area",
     summary |-> "No " \o Label[field] \o " to report",
     skip_topic |-> TRUE]

\* a fallback verdict that carries no follow-up question
MainDefaultVerdictNoQuestion(field) ==
    [keys |-> VerdictKeys,
     satisfaction_score |-> 5,
     missing_info |-> "Error in evaluation",
     follow_up_question |-> "",
     analysis |-> "Error occurred during analysis",
     summary |-> "",
     skip_topic |-> FALSE]

MainDefaultVerdict(field) ==
    [keys |-> VerdictKeys,
     satisfaction_score |-> 5,
     missing_info |-> "Error in evaluation",
     follow_up_question |-> FirstFollowUp(field),
     analysis |-> "Error occurred during analysis",
     summary |-> "",
     skip_topic |-> FALSE]

\* an evaluate_response that records the response before it tests for a refusal
evaluate_response_recording_first(reply, response, field, mem) ==
    IF MainNegative[response]
    THEN [evaluation |-> SkipVerdict(field), memory |-> add_response(mem, field, response)]
    ELSE [evaluation |-> IF reply.ok THEN reply.dict ELSE MainDefaultVerdict(field),
          memory |-> add_response(mem, field, response)]

\* returns the dict and the memory the call leaves behind
evaluate_response(reply, response, field, mem) ==
    IF MainNegative[response]
    THEN [evaluation |-> SkipVerdict(field), memory |-> mem]
    ELSE [evaluation |-> IF reply.ok THEN reply.dict ELSE MainDefaultVerdict(field),
          memory |-> add_response(mem, field, response)]

---------------------------------------------------------------------------
(* app.py: process_response *)

ClosingMessage == "Thank you, we've completed all the topics!"

MoveOn(prefix, next_field) ==
    prefix \o " Let's move on to your " \o Label[next_field] \o ". "
    \o FirstFollowUp(next_field)

\* a skip path that starts over at the first topic after the last one
process_negative_rewinding(form, mem, field) ==
    LET form1 == [form EXCEPT ![field].value = Str("No experience reported"),
                              ![field].satisfaction = 0]
        next_field == NextField(field)
    IN  IF next_field # None
        THEN [interview_form |-> form1, memory |-> mem, current_field |-> next_field,
              message |-> MoveOn("I understand.", next_field)]
        ELSE [interview_form |-> form1, memory |-> mem, current_field |-> Fields[1],
              message |-> ClosingMessage]

\* lines 39-65: the branch taken when is_negative_response(prompt)
process_negative(form, mem, field) ==
    LET form1 == [form EXCEPT ![field].value = Str("No experience reported"),
                              ![field].satisfaction = 0]
        next_field == NextField(field)
    IN  IF next_field # None
        THEN [interview_form |-> form1, memory |-> mem, current_field |-> next_field,
              message |-> MoveOn("I understand.", next_field)]
        ELSE [interview_form |-> form1, memory |-> mem, current_field |-> field,
              message |-> ClosingMessage]

\* a threshold that leaves out the score 7
SatisfiedAbove7(score) == score > 7

\* line 102: evaluation["satisfaction_score"] >= 7
Satisfied(score) == score >= 7

\* lines 67-117: the branch that evaluates the answer
process_answer(reply, prompt, form, mem, field) ==
    LET mem1 == add_response(mem, field, prompt)
        call == evaluate_response(reply, prompt, field, mem1)
        ev == call.evaluation
        mem2 == call.memory
        form1 == [form EXCEPT ![field].value = Str(get_field_history(mem2, field)),
                              ![field].satisfaction = ev.satisfaction_score]
        next_field == NextField(field)
    IN  IF ~({"satisfaction_score", "analysis"} \subseteq ev.keys)
        THEN \* KeyError before the form is written: the except branch
             [interview_form |-> form, memory |-> mem2, current_field |-> field,
              message |-> FirstFollowUp(field)]
        ELSE IF Satisfied(ev.satisfaction_score)
        THEN IF next_field # None
             THEN [interview_form |-> form1, memory |-> mem2, current_field |-> next_field,
                   message |-> MoveOn("Great!", next_field)]
             ELSE [interview_form |-> form1, memory |-> mem2, current_field |-> field,
                   message |-> ClosingMessage]
        ELSE IF "follow_up_question" \in ev.keys
        THEN [interview_form |-> form1, memory |-> mem2, current_field |-> field,
              message |-> ev.follow_up_question]
        ELSE \* KeyError after the form is written: the except branch
             [interview_form |-> form1, memory |-> mem2, current_field |-> field,
              message |-> FirstFollowUp(field)]

process_response(reply, prompt, form, mem, field) ==
    IF AppNegative[prompt]
    THEN process_negative(form, mem, field)
    ELSE process_answer(reply, prompt, form, mem, field)

---------------------------------------------------------------------------
(* app.py: initialize_session_state and main *)

Message(role, content) == [role |-> role, content |-> content]

IsUser(m) == m.role = "user"
IsAnswer(m) == m.role = "user" /\ ~AppNegative[m.content]
CountUser(msgs) == Cardinality({i \in 1..Len(msgs) : IsUser(msgs[i])})
CountAnswers(msgs) == Cardinality({i \in 1..Len(msgs) : IsAnswer(msgs[i])})

\* the transcripts of the sessions, one after the other
RECURSIVE Transcripts(_)
Transcripts(sessions) ==
    IF Len(sessions) = 0 THEN <<>>
    ELSE Head(sessions).messages \o Transcripts(Tail(sessions))

\* user inputs handled so far by the server process, and the answers among them
TurnsHandled == CountUser(messages \o Transcripts(other_sessions))
AnswersGiven == CountAnswers(messages \o Transcripts(other_sessions))

\* a new browser session: initialize_session_state on an empty session_state.
\* interview_form.copy() is a shallow copy: the session's form holds the field
\* dicts of main.interview_form themselves, which stay as earlier sessions left them.
\* (A session opened after one that handled no input is in the state of that one:
\* only sessions that handled an input are followed by another.)
NewSession ==
    /\ prog = "app"
    /\ Len(other_sessions) + 1 < MaxSessions
    /\ Len(messages) > 1
    /\ other_sessions' = Append(other_sessions,
           [messages |-> messages, memory |-> memory, current_field |-> current_field])
    /\ messages' = <<Message("assistant", OpeningQuestion)>>
    /\ memory' = NewMemory
    /\ current_field' = "name"
    /\ UNCHANGED <<prog, api_key, negative, interview_form, current_question, pc, json_file, chat_file,
                   loaded, evaluation, next_question>>

\* initialize_session_state, lines 26-27: the pointer of a session whose
\* session_state holds the components in `session_state`
initialize_current_field(session_state) ==
    IF "current_field" \in DOMAIN session_state THEN session_state.current_field
    ELSE "name"

\* main, lines 133-140: what the progress tracker of the sidebar shows for a topic
sidebar_status(satisfaction) ==
    IF satisfaction = 0 THEN "skipped"
    ELSE IF satisfaction >= 7 THEN "complete"
    ELSE "in progress"

\* main, lines 163-183, for one chat input (the API key is set)
ChatInput(prompt, reply) ==
    LET r == process_response(reply, prompt, interview_form, memory, current_field)
    IN  /\ messages' = messages \o <<Message("user", prompt), Message("assistant", r.message)>>
        /\ interview_form' = r.interview_form
        /\ memory' = r.memory
        /\ current_field' = r.current_field
        /\ UNCHANGED <<prog, api_key, negative, other_sessions, current_question, pc, json_file, chat_file,
                       loaded, evaluation, next_question>>

\* the user declines the topic
AppSkip ==
    /\ prog = "app"
    /\ api_key
    /\ TurnsHandled < MaxTurns
    /\ AppNegative[Refusal]
    /\ ChatInput(Refusal, JudgeFailure)

\* the user gives the next answer and the judge is called
AppAnswer ==
    /\ prog = "app"
    /\ api_key
    /\ TurnsHandled < MaxTurns
    /\ AnswersGiven < MaxAnswers
    /\ AnswersGiven < Len(Answers)
    /\ ~AppNegative[Answers[AnswersGiven + 1]]
    /\ \E reply \in JudgeReplies : ChatInput(Answers[AnswersGiven + 1], reply)

\* main, lines 163-173, for a chat input when no API key is set: the user message
\* is appended at line 165 and main returns at line 173
AppNoApiKey ==
    /\ prog = "app"
    /\ ~api_key
    /\ TurnsHandled < MaxTurns
    /\ \E prompt \in {Refusal} \cup {Answers[i] : i \in {AnswersGiven + 1}
                                                     \cap 1..Len(Answers)
                                                     \cap 1..MaxAnswers} :
          messages' = Append(messages, Message("user", prompt))
    /\ UNCHANGED <<prog, api_key, negative, interview_form, other_sessions, memory,
                   current_field, current_question, pc, json_file, chat_file, loaded,
                   evaluation, next_question>>

---------------------------------------------------------------------------
(* main.py: determine_next_question, save_interview_state, conduct_interview *)

CoveredEverything ==
    "We've covered everything I needed to know. Is there anything else you'd like to add?"

LetsTalk(next_field) ==
    "Let's talk about your " \o Label[next_field] \o ". " \o FirstFollowUp(next_field)

\* lines 215-225: the first field, in catalog order, with 0 < satisfaction < 7
FirstIncomplete(form) ==
    LET open == {i \in 1..Len(Fields) :
                    form[Fields[i]].satisfaction # 0 /\ form[Fields[i]].satisfaction < 7}
    IN  IF open = {} THEN None
        ELSE Fields[CHOOSE i \in open : \A j \in open : i <= j]

\* returns the tuple (next field, question) as a record
determine_next_question(current_form, field) ==
    IF field # None /\ current_form[field].satisfaction >= 7
    THEN IF Index(field) + 1 <= Len(Fields)
         THEN [field |-> Fields[Index(field) + 1],
               question |-> LetsTalk(Fields[Index(field) + 1])]
         ELSE [field |-> None, question |-> CoveredEverything]
    ELSE IF FirstIncomplete(current_form) # None
         THEN [field |-> FirstIncomplete(current_form),
               question |-> FirstFollowUp(FirstIncomplete(current_form))]
         ELSE [field |-> None, question |-> CoveredEverything]

StatusOf(satisfaction) ==
    IF satisfaction = 0 THEN "skipped"
    ELSE IF satisfaction >= 7 THEN "complete"
    ELSE "incomplete"

\* the document save_interview_state writes (the timestamp left out)
save_interview_state(interview_data) ==
    [written |-> TRUE,
     interview_data |->
        [f \in FieldSet |->
            [value |-> interview_data[f].value,
             satisfaction_score |-> interview_data[f].satisfaction,
             status |-> StatusOf(interview_data[f].satisfaction)]]]

\* the state one pass of the loop of conduct_interview leaves, lines 277-329
conduct_turn(reply, response, form, mem, field, question, file) ==
    LET call == evaluate_response(reply, response, field, mem)
        ev == call.evaluation
        mem1 == call.memory
        skipped == [form EXCEPT ![field].value = Str("No experience reported"),
                                ![field].satisfaction = 0]
        valued == [form EXCEPT ![field].value = Str(get_field_history(mem1, field))]
        scored == [valued EXCEPT ![field].satisfaction = ev.satisfaction_score]
        next == determine_next_question(scored, field)
        state(f, m, cf, q, jf, at) ==
            [interview_form |-> f, memory |-> m, current_field |-> cf,
             current_question |-> q, json_file |-> jf, pc |-> at]
    IN  IF "skip_topic" \in ev.keys /\ ev.skip_topic
        THEN IF Index(field) + 1 <= Len(Fields)
             THEN state(skipped, mem1, Fields[Index(field) + 1],
                        LetsTalk(Fields[Index(field) + 1]),
                        save_interview_state(skipped), "input")
             ELSE state(skipped, mem1, field, question,
                        save_interview_state(skipped), "done")
        ELSE IF "satisfaction_score" \notin ev.keys
        THEN \* KeyError at line 309, after line 308 wrote the value
             state(valued, mem1, field, question, file, "crashed")
        ELSE IF ~({"summary", "analysis"} \subseteq ev.keys)
        THEN \* KeyError at lines 320-321, after the state was saved
             state(scored, mem1, field, question, save_interview_state(scored), "crashed")
        ELSE IF ev.satisfaction_score < 7
        THEN IF {"missing_info", "follow_up_question"} \subseteq ev.keys
             THEN state(scored, mem1, field, ev.follow_up_question,
                        save_interview_state(scored), "input")
             ELSE state(scored, mem1, field, question,
                        save_interview_state(scored), "crashed")
        ELSE state(scored, mem1, next.field, next.question,
                   save_interview_state(scored),
                   IF next.field = None THEN "done" ELSE "input")

CliInput(response, reply) ==
    LET r == conduct_turn(reply, response, interview_form, memory, current_field,
                          current_question, json_file)
    IN  /\ interview_form' = r.interview_form
        /\ memory' = r.memory
        /\ current_field' = r.current_field
        /\ current_question' = r.current_question
        /\ json_file' = r.json_file
        /\ pc' = r.pc
        /\ UNCHANGED <<prog, api_key, negative, other_sessions, messages, chat_file, loaded, evaluation,
                       next_question>>

\* the interviewee declines the topic
CliSkip ==
    /\ prog = "cli"
    /\ pc = "input"
    /\ MainNegative[Refusal]
    /\ CliInput(Refusal, JudgeFailure)

\* the interviewee gives the next answer and the judge is called
CliAnswer ==
    /\ prog = "cli"
    /\ pc = "input"
    /\ Accumulated(memory) < MaxAnswers
    /\ Accumulated(memory) < Len(Answers)
    /\ ~MainNegative[Answers[Accumulated(memory) + 1]]
    /\ \E reply \in JudgeReplies : CliInput(Answers[Accumulated(memory) + 1], reply)

\* the calls of save_interview_state a pass of the loop makes
SaveCalls == {"line 294", "line 313", "line 316"}

\* the state a pass of the loop leaves when open() of line 252 raises OSError
\* in the call `failing`: nothing of conduct_interview catches it
conduct_turn_save_fails(reply, response, form, mem, field, question, file, failing) ==
    LET call == evaluate_response(reply, response, field, mem)
        ev == call.evaluation
        skipped == [form EXCEPT ![field].value = Str("No experience reported"),
                                ![field].satisfaction = 0]
        scored == [form EXCEPT ![field].value = Str(get_field_history(call.memory, field)),
                               ![field].satisfaction = ev.satisfaction_score]
    IN  [interview_form |-> IF failing = "line 294" THEN skipped ELSE scored,
         memory |-> call.memory,
         current_field |-> field,
         current_question |-> question,
         json_file |-> IF failing = "line 316" THEN save_interview_state(scored) ELSE file,
         pc |-> "crashed"]

\* a pass of the loop during which the state file cannot be opened for writing
CliSaveFails ==
    /\ prog = "cli"
    /\ pc = "input"
    /\ \E response \in {Refusal} \cup {Answers[i] : i \in {Accumulated(memory) + 1}
                                                       \cap 1..Len(Answers)
                                                       \cap 1..MaxAnswers},
          reply \in JudgeReplies, failing \in SaveCalls :
          LET ev == evaluate_response(reply, response, current_field, memory).evaluation
              r == conduct_turn_save_fails(reply, response, interview_form, memory,
                                           current_field, current_question, json_file,
                                           failing)
          IN  /\ IF "skip_topic" \in ev.keys /\ ev.skip_topic
                 THEN failing = "line 294"
                 ELSE failing # "line 294" /\ "satisfaction_score" \in ev.keys
              /\ interview_form' = r.interview_form
              /\ memory' = r.memory
              /\ current_field' = r.current_field
              /\ current_question' = r.current_question
              /\ json_file' = r.json_file
              /\ pc' = r.pc
    /\ UNCHANGED <<prog, api_key, negative, other_sessions, messages, chat_file, loaded, evaluation,
                   next_question>>

\* the interviewee types exit: response.lower() == 'exit'
CliExit ==
    /\ prog = "cli"
    /\ pc = "input"
    /\ \E response \in {"Exit"} :
          /\ lower(response) = "exit"
          /\ pc' = "done"
    /\ UNCHANGED <<prog, api_key, negative, interview_form, other_sessions, messages, memory, current_field,
                   current_question, json_file, chat_file, loaded, evaluation,
                   next_question>>

---------------------------------------------------------------------------
(* determine_next_question called on its own, with any form *)

\* the satisfaction values the forms handed to it carry
SampleScores == {0, 4, 7}
SampleForms ==
    {[f \in FieldSet |-> [InitialForm[f] EXCEPT !.satisfaction = sat[f]]] :
        sat \in [FieldSet -> SampleScores]}

DetermineNextQuestion ==
    /\ prog = "determine_next_question"
    /\ next_question = NotCalled
    /\ \E field \in FieldSet \cup {None} :
          next_question' =
              [called |-> TRUE, current_field |-> field,
               result |-> determine_next_question(interview_form, field)]
    /\ UNCHANGED <<prog, api_key, negative, interview_form, other_sessions, messages, memory, current_field,
                   current_question, pc, json_file, chat_file, loaded, evaluation>>

---------------------------------------------------------------------------
(* utils.py: InterviewMemory and evaluate_response *)

utils_add_response(mem, field, response) ==
    LET fm == DictSet(mem.field_memory, field,
                      Append(DictGet(mem.field_memory, field, <<>>), response))
    IN  [field_memory |-> fm,
         current_responses |-> DictSet(mem.current_responses, field, join(fm[field]))]

\* current_responses is a defaultdict(str): reading a missing key stores ""
utils_get_field_history(mem, field) ==
    [value |-> DictGet(mem.current_responses, field, ""),
     memory |-> [mem EXCEPT !.current_responses =
                     DictSet(@, field, DictGet(@, field, ""))]]

UtilsDefaultVerdict(field) ==
    [keys |-> {"satisfaction_score", "analysis", "missing_info", "follow_up_question",
               "skip_topic"},
     satisfaction_score |-> 5,
     missing_info |-> "Error in evaluation",
     follow_up_question |-> IF field \in FieldSet THEN FirstFollowUp(field)
                            ELSE "Could you please provide more details?",
     analysis |-> "Error occurred during analysis",
     summary |-> "",
     skip_topic |-> FALSE]

\* lines 144-147: evaluation.setdefault(...)
WithDefaults(dict, field) ==
    [keys |-> dict.keys \cup {"satisfaction_score", "analysis", "missing_info",
                              "follow_up_question"},
     satisfaction_score |->
        IF "satisfaction_score" \in dict.keys THEN dict.satisfaction_score ELSE 5,
     missing_info |-> IF "missing_info" \in dict.keys THEN dict.missing_info ELSE "None",
     follow_up_question |->
        IF "follow_up_question" \in dict.keys THEN dict.follow_up_question
        ELSE FirstFollowUp(field),
     analysis |-> IF "analysis" \in dict.keys THEN dict.analysis ELSE "Analysis not provided",
     summary |-> dict.summary,
     skip_topic |-> dict.skip_topic]

utils_evaluate_response(reply, response, field, mem) ==
    LET read == utils_get_field_history(mem, field)
    IN  [evaluation |-> IF field \in FieldSet /\ reply.ok
                        THEN WithDefaults(reply.dict, field)
                        ELSE UtilsDefaultVerdict(field),
         memory |-> read.memory]

UtilsEvaluate ==
    /\ prog = "evaluate_response"
    /\ evaluation = NotCalled
    /\ \E field \in FieldSet \cup {"hobbies"}, reply \in JudgeReplies \cup IncompleteReplies :
          LET r == utils_evaluate_response(reply, Answers[1], field, memory)
          IN  /\ evaluation' = [called |-> TRUE, field |-> field, reply |-> reply,
                                result |-> r.evaluation]
              /\ memory' = r.memory
    /\ UNCHANGED <<prog, api_key, negative, interview_form, other_sessions, messages, current_field,
                   current_question, pc, json_file, chat_file, loaded, next_question>>

---------------------------------------------------------------------------
(* utils.is_negative_response: the judge-strategy detector and its fallback *)

UtilsNegativeIndicators ==
    <<"no", "none", "nothing", "don't have", "do not have",
      "nothing comes to mind", "haven't done any", "i don't",
      "no experience", "no projects">>

\* lines 194-201: the except branch
utils_keyword_fallback(response) == AnyIndicatorIn(UtilsNegativeIndicators, response)

\* a detector that asks the keywords whenever the judge's text is not "true"
utils_is_negative_response_falling_back(reply, response) ==
    IF reply.ok /\ reply.content = "true" THEN TRUE ELSE utils_keyword_fallback(response)

\* reply.ok = FALSE: client.chat.completions.create raised
utils_is_negative_response(reply, response) ==
    IF reply.ok
    THEN LET result == lower(strip(reply.content))
         IN  result = "true"
    ELSE utils_keyword_fallback(response)

\* texts the judge answers the detector's prompt with
DetectorOutputs == {"true", "false", "True", " TRUE ", "yes", ""}
DetectorReplies ==
    {[ok |-> FALSE, content |-> ""]} \cup {[ok |-> TRUE, content |-> o] : o \in DetectorOutputs}

\* utterances the detectors are asked about
DetectorUtterances ==
    {"No", "Yes", "Jo", "  NONE ", "Nothing comes to mind", "I don't", "I do not have one",
     "I haven't done any", "I know Go"}

\* one call of each copy of is_negative_response on the same utterance
IsNegativeResponse ==
    /\ prog = "is_negative_response"
    /\ negative = NotCalled
    /\ \E response \in DetectorUtterances, reply \in DetectorReplies :
          negative' = [called |-> TRUE, response |-> response, reply |-> reply,
                       utils |-> utils_is_negative_response(reply, response),
                       fallback |-> utils_keyword_fallback(response),
                       app |-> app_is_negative_response(response),
                       main |-> main_is_negative_response(response)]
    /\ UNCHANGED <<prog, api_key, interview_form, other_sessions, messages, memory,
                   current_field, current_question, pc, json_file, chat_file, loaded,
                   evaluation, next_question>>

---------------------------------------------------------------------------
(* JSON documents, json.dump and json.load *)

JString(s) == [json |-> "string", v |-> s]
JNumber(n) == [json |-> "number", v |-> n]
JArray(items) == [json |-> "array", v |-> items]
\* an object: its members in the order they were written
JObject(members) == [json |-> "object", v |-> members]
Member(key, doc) == [key |-> key, doc |-> doc]

JKeys(obj) == {obj.v[i].key : i \in 1..Len(obj.v)}
JGet(obj, key) == obj.v[CHOOSE i \in 1..Len(obj.v) : obj.v[i].key = key].doc

\* the keys of a dict of fields, in catalog order
RECURSIVE KeysInOrder(_, _)
KeysInOrder(d, i) ==
    IF i > Len(Fields) THEN <<>>
    ELSE (IF Fields[i] \in DOMAIN d THEN <<Fields[i]>> ELSE <<>>) \o KeysInOrder(d, i + 1)

DumpDict(docs) ==
    LET keys == KeysInOrder(docs, 1)
    IN  JObject([i \in 1..Len(keys) |-> Member(keys[i], docs[keys[i]])])
\* the dict an object loads to, its values still documents
LoadDict(obj) == [k \in JKeys(obj) |-> JGet(obj, k)]

DumpStr(s) == JString(s)
LoadStr(doc) == doc.v
DumpList(list) == JArray([i \in 1..Len(list) |-> JString(list[i])])
LoadList(doc) == [i \in 1..Len(doc.v) |-> doc.v[i].v]

\* a form value: a str, or the list technical_skills starts with
DumpValue(value) == IF value.type = "str" THEN JString(value.v) ELSE DumpList(value.v)
LoadValue(doc) ==
    IF doc.json = "string" THEN Str(doc.v) ELSE [type |-> "list", v |-> LoadList(doc)]

DumpFieldData(data) ==
    JObject(<<Member("value", DumpValue(data.value)),
              Member("satisfaction", JNumber(data.satisfaction))>>)
LoadFieldData(doc) ==
    [value |-> LoadValue(JGet(doc, "value")), satisfaction |-> JGet(doc, "satisfaction").v]

DumpMessage(m) ==
    JObject(<<Member("role", JString(m.role)), Member("content", JString(m.content))>>)
LoadMessage(doc) == [role |-> JGet(doc, "role").v, content |-> JGet(doc, "content").v]

---------------------------------------------------------------------------
(* utils.py: save_chat_history and load_chat_history *)

\* a save_chat_history that leaves the raw responses out of the record
save_chat_history_without_field_memory(msgs, form, mem) ==
    [written |-> TRUE,
     data |-> JObject(<<
        Member("messages", JArray([i \in 1..Len(msgs) |-> DumpMessage(msgs[i])])),
        Member("interview_form", DumpDict([f \in DOMAIN form |-> DumpFieldData(form[f])])),
        Member("memory", JObject(<<
            Member("current_responses", DumpDict([f \in DOMAIN mem.current_responses |->
                                DumpStr(mem.current_responses[f])]))>>))>>)]

\* the file save_chat_history writes
save_chat_history(msgs, form, mem) ==
    [written |-> TRUE,
     data |-> JObject(<<
        Member("messages", JArray([i \in 1..Len(msgs) |-> DumpMessage(msgs[i])])),
        Member("interview_form", DumpDict([f \in DOMAIN form |-> DumpFieldData(form[f])])),
        Member("memory", JObject(<<
            Member("field_memory", DumpDict([f \in DOMAIN mem.field_memory |->
                                DumpList(mem.field_memory[f])])),
            Member("current_responses", DumpDict([f \in DOMAIN mem.current_responses |->
                                DumpStr(mem.current_responses[f])]))>>))>>)]

\* a load_chat_history without the except clause: open() raises FileNotFoundError
load_chat_history_uncaught(file) ==
    [raised |-> ~file.written, messages |-> <<>>, interview_form |-> EmptyDict,
     memory |-> NewMemory]

\* what load_chat_history returns for the file: (messages, interview_form, memory);
\* raised: an exception left the function instead
load_chat_history(file) ==
    IF ~file.written
    THEN [raised |-> FALSE, messages |-> <<>>, interview_form |-> EmptyDict,
          memory |-> NewMemory]
    ELSE LET data == file.data
             memory_data == IF "memory" \in JKeys(data) THEN JGet(data, "memory")
                            ELSE JObject(<<>>)
             get(obj, key) == IF key \in JKeys(obj) THEN JGet(obj, key) ELSE JObject(<<>>)
             form_docs == LoadDict(get(data, "interview_form"))
             list_docs == LoadDict(get(memory_data, "field_memory"))
             str_docs == LoadDict(get(memory_data, "current_responses"))
         IN  [raised |-> FALSE,
              messages |->
                 IF "messages" \in JKeys(data)
                 THEN [i \in 1..Len(JGet(data, "messages").v) |->
                          LoadMessage(JGet(data, "messages").v[i])]
                 ELSE <<>>,
              interview_form |-> [f \in DOMAIN form_docs |-> LoadFieldData(form_docs[f])],
              memory |->
                 [field_memory |-> [f \in DOMAIN list_docs |-> LoadList(list_docs[f])],
                  current_responses |->
                      [f \in DOMAIN str_docs |-> LoadStr(str_docs[f])]]]

(* a caller of utils.py: it fills an InterviewMemory, saves and loads *)

StoreFields == {"name", "technical_skills"}
StoreResponses == {Answers[1], Answers[2]}
SampleTranscripts ==
    {<<Message("assistant", OpeningQuestion)>>,
     <<Message("assistant", OpeningQuestion), Message("user", Answers[1]),
       Message("assistant", JudgeDict(6).follow_up_question)>>}
StoreForms ==
    {InitialForm,
     [InitialForm EXCEPT !["name"] = [value |-> Str(Answers[1]), satisfaction |-> 7],
                         !["current_role"] = [value |-> Str("No experience reported"),
                                              satisfaction |-> 0]]}

StoreAddResponse ==
    /\ prog = "chat_history"
    /\ pc = "build"
    /\ Accumulated(memory) < MaxStored
    /\ \E field \in StoreFields, response \in StoreResponses :
          memory' = utils_add_response(memory, field, response)
    /\ UNCHANGED <<prog, api_key, negative, interview_form, other_sessions, messages, current_field,
                   current_question, pc, json_file, chat_file, loaded, evaluation,
                   next_question>>

StoreSave ==
    /\ prog = "chat_history"
    /\ pc = "build"
    /\ chat_file' = save_chat_history(messages, interview_form, memory)
    /\ pc' = "saved"
    /\ UNCHANGED <<prog, api_key, negative, interview_form, other_sessions, messages, memory, current_field,
                   current_question, json_file, loaded, evaluation, next_question>>

StoreLoad ==
    /\ prog = "chat_history"
    /\ pc \in {"build", "saved"}
    /\ loaded = NotCalled
    /\ loaded' = [called |-> TRUE, found |-> chat_file.written,
                  result |-> load_chat_history(chat_file)]
    /\ pc' = IF chat_file.written THEN "loaded" ELSE pc
    /\ UNCHANGED <<prog, api_key, negative, interview_form, other_sessions, messages, memory, current_field,
                   current_question, json_file, chat_file, evaluation, next_question>>

---------------------------------------------------------------------------
Programs ==
    {"app", "cli", "determine_next_question", "evaluate_response", "is_negative_response",
     "chat_history"}

Init ==
    /\ prog \in Programs
    /\ api_key \in (IF prog = "app" THEN BOOLEAN ELSE {TRUE})
    /\ interview_form \in (IF prog = "determine_next_question" THEN SampleForms
                          ELSE IF prog = "chat_history" THEN StoreForms
                          ELSE {InitialForm})
    /\ other_sessions = <<>>
    /\ messages \in (IF prog = "app" THEN {<<Message("assistant", OpeningQuestion)>>}
                    ELSE IF prog = "chat_history" THEN SampleTranscripts
                    ELSE {<<>>})
    /\ memory = NewMemory
    /\ current_field = IF prog \in {"app", "cli"} THEN "name" ELSE None
    /\ current_question = IF prog = "cli" THEN OpeningQuestion ELSE ""
    /\ pc = IF prog = "cli" THEN "input" ELSE IF prog = "chat_history" THEN "build" ELSE "-"
    /\ json_file = IF prog = "cli" THEN save_interview_state(interview_form) ELSE NotWritten
    /\ chat_file = NotWritten
    /\ loaded = NotCalled
    /\ evaluation = NotCalled
    /\ negative = NotCalled
    /\ next_question = NotCalled

Next ==
    \/ NewSession
    \/ AppSkip
    \/ AppAnswer
    \/ AppNoApiKey
    \/ CliSkip
    \/ CliAnswer
    \/ CliSaveFails
    \/ CliExit
    \/ DetermineNextQuestion
    \/ UtilsEvaluate
    \/ IsNegativeResponse
    \/ StoreAddResponse
    \/ StoreSave
    \/ StoreLoad

Spec == Init /\ [][Next]_vars

---------------------------------------------------------------------------
(* Vocabulary of the properties *)

\* position of the pointer in the catalog; the terminal sentinel comes last
Rank(field) == IF field = None THEN Len(Fields) + 1 ELSE Index(field)
LastField == Fields[Len(Fields)]
LastMessage == messages[Len(messages)].content

\* a step of the app that handles a chat input of the session being served
AppTurn == prog = "app" /\ Len(messages') = Len(messages) + 2 /\ other_sessions' = other_sessions
\* the utterance of that input
AppUtterance == messages'[Len(messages) + 1].content
\* what the app answered
AppReply == messages'[Len(messages')].content
\* the inputs a pass of the loop of conduct_interview can read
CliUtterances == {Refusal} \cup {Answers[i] : i \in {Accumulated(memory) + 1} \cap 1..Len(Answers)}

\* the dict main.evaluate_response returns for a judged answer
MainVerdict(reply, field) == IF reply.ok THEN reply.dict ELSE MainDefaultVerdict(field)
ScoreAtLeast7(verdict) ==
    "satisfaction_score" \in verdict.keys /\ verdict.satisfaction_score >= 7

\* touched and not yet satisfying
Incomplete(satisfaction) == satisfaction # 0 /\ satisfaction < 7

---------------------------------------------------------------------------
(* C1 *)

\* the pointer of a session never moves to an earlier topic
PointerMovesForward ==
    (prog \in {"app", "cli"} /\ other_sessions' = other_sessions)
        => Rank(current_field') >= Rank(current_field)

\* C1, as stated: the current-topic pointer never moves backward, in
\* process_response, in conduct_interview, and in determine_next_question called
\* with any form: what it returns never precedes the field it was called for.
C1_NeverBackwardAnyForm ==
    [][/\ PointerMovesForward
       /\ (next_question'.called /\ next_question'.current_field # None)
            => Rank(next_question'.result.field) >= Rank(next_question'.current_field)]_vars

\* C1, amended: in process_response and conduct_interview the pointer of a session
\* never moves backward, so each topic is current for one contiguous visit at most;
\* determine_next_question moves to the immediate successor (or the end) when the
\* satisfaction of the field it is called for is >= 7, and otherwise returns the
\* first field of the catalog with 0 < satisfaction < 7, wherever it lies.
C1_NeverBackward ==
    [][/\ PointerMovesForward
       /\ (next_question'.called /\ next_question'.current_field # None)
            => LET field == next_question'.current_field
                   result == next_question'.result.field
               IN  IF interview_form[field].satisfaction >= 7
                   THEN Rank(result) = Rank(field) + 1
                   ELSE /\ result # None =>
                             /\ Incomplete(interview_form[result].satisfaction)
                             /\ \A i \in 1..(Index(result) - 1) :
                                   ~Incomplete(interview_form[Fields[i]].satisfaction)
                        /\ result = None =>
                             \A f \in FieldSet : ~Incomplete(interview_form[f].satisfaction)]_vars

\* the app reached the last topic after a topic took more than one turn
C1_Witness ==
    /\ prog = "app"
    /\ current_field = LastField
    /\ \E f \in FieldSet : f # LastField /\ Len(AllResponses(memory, f)) > 2

---------------------------------------------------------------------------
(* C2 *)

---------------------------------------------------------------------------
(* C3 *)

\* a turn of the app, or a pass of the loop of conduct_interview, on a negative utterance
NegativeTurn ==
    \/ AppTurn /\ AppNegative[AppUtterance]
    \/ /\ prog = "cli" /\ pc = "input"
       /\ \E response \in CliUtterances :
             MainNegative[response] /\ CliInput(response, JudgeFailure)

\* C3, as stated: a negative utterance on the current topic t sets t's score to 0
\* and leaves all(t) empty.
C3_NegativeLeavesEmpty ==
    [][NegativeTurn =>
          /\ interview_form'[current_field].satisfaction = 0
          /\ AllResponses(memory', current_field) = <<>>]_vars

\* C3, amended: a negative utterance on the current topic t sets t's score to
\* exactly 0 and is not appended: the accumulator is left as it was, so all(t) is
\* empty only if no earlier answer was accumulated for t.
C3_NegativeNotAppended ==
    [][NegativeTurn =>
          /\ interview_form'[current_field].satisfaction = 0
          /\ memory' = memory
          /\ \A f \in FieldSet : Refusal \notin
                {AllResponses(memory', f)[i] : i \in 1..Len(AllResponses(memory', f))}]_vars

\* a topic was declined after an answer to it had been accumulated
C3_Witness ==
    \E f \in FieldSet :
        /\ prog \in {"app", "cli"}
        /\ interview_form[f].satisfaction = 0
        /\ interview_form[f].value = Str("No experience reported")
        /\ AllResponses(memory, f) # <<>>

---------------------------------------------------------------------------
(* C4 *)

\* C4: when the judge call fails on a non-negative utterance on topic t, the
\* stored score of t becomes 5, the pointer stays on t and the question emitted is
\* t's first catalog follow-up, which is not empty; utils.evaluate_response returns
\* the same score and question for a failed call.
C4_FailedJudgeCall ==
    [][/\ (AppTurn /\ ~AppNegative[AppUtterance]
              /\ ChatInput(AppUtterance, JudgeFailure)) =>
             /\ interview_form'[current_field].satisfaction = 5
             /\ current_field' = current_field
             /\ AppReply = FirstFollowUp(current_field)
             /\ AppReply # ""
       /\ (prog = "cli" /\ pc = "input") =>
             \A response \in CliUtterances :
                (~MainNegative[response] /\ CliInput(response, JudgeFailure)) =>
                   /\ interview_form'[current_field].satisfaction = 5
                   /\ current_field' = current_field
                   /\ pc' = "input"
                   /\ current_question' = FirstFollowUp(current_field)
                   /\ current_question' # ""
       /\ (evaluation'.called /\ ~evaluation'.reply.ok /\ evaluation'.field \in FieldSet) =>
             /\ evaluation'.result.satisfaction_score = 5
             /\ evaluation'.result.follow_up_question = FirstFollowUp(evaluation'.field)
             /\ evaluation'.result.follow_up_question # ""]_vars

\* the app asked the first follow-up of a later topic again after a failed call
C4_Witness ==
    /\ prog = "app"
    /\ current_field = "current_role"
    /\ interview_form[current_field].satisfaction = 5
    /\ Len(messages) > 3
    /\ LastMessage = FirstFollowUp(current_field)

---------------------------------------------------------------------------
(* C5 *)

\* the session a persisted chat history restores
Restored(file) == load_chat_history(file)

\* C5: after every processed turn the full session is persisted, so that between
\* turns the persisted record reflects every completed turn: the transcript, the
\* form and the accumulator.
C5_PersistedAfterEveryTurn ==
    /\ (prog = "app" /\ Len(messages) > 1) =>
          /\ chat_file.written
          /\ Restored(chat_file).messages = messages
          /\ Restored(chat_file).interview_form = interview_form
          /\ Restored(chat_file).memory = memory
    /\ (prog = "cli" /\ pc = "input") =>
          /\ json_file.written
          /\ \A f \in FieldSet :
                /\ json_file.interview_data[f].satisfaction_score
                       = interview_form[f].satisfaction
                /\ json_file.interview_data[f].value = interview_form[f].value
          /\ Accumulated(memory) > 0 => chat_file.written

---------------------------------------------------------------------------
(* C6 *)

\* the session restored from the record of a session is that session: the same
\* transcript, the same form (every topic's score and value) and the same memory
\* (every topic's raw-utterance list and composite string)
SameSession(restored, msgs, form, mem) ==
    /\ restored.messages = msgs
    /\ restored.interview_form = form
    /\ restored.memory = mem

\* C6: save_chat_history followed by load_chat_history yields a session whose
\* transcript, per-topic scores and per-topic raw-utterance lists and composite
\* strings are those of the session saved: for the caller that saved and loaded,
\* and for the record of every session the app or the command line can reach.
C6_RoundTrip ==
    /\ pc = "loaded" => SameSession(loaded.result, messages, interview_form, memory)
    /\ prog \in {"app", "cli"} =>
          SameSession(Restored(save_chat_history(messages, interview_form, memory)),
                      messages, interview_form, memory)

\* a session with a user turn, a scored topic and two responses was saved and loaded
C6_Witness ==
    /\ pc = "loaded"
    /\ Len(messages) > 1
    /\ interview_form["name"].satisfaction = 7
    /\ \E f \in StoreFields : Len(AllResponses(loaded.result.memory, f)) >= 2

---------------------------------------------------------------------------
(* C7 *)

\* composite(t) is the space-joined concatenation of all(t), "" when all(t) is empty
CompositeIsJoin(mem) ==
    \A f \in FieldSet : get_field_history(mem, f) = join(AllResponses(mem, f))

\* C7: in every reachable state and for every topic t, composite(t) equals the
\* space-joined concatenation of all(t) in arrival order, after every append and
\* in the memory load_chat_history returns.
C7_CompositeIsJoin ==
    /\ CompositeIsJoin(memory)
    /\ loaded.called => CompositeIsJoin(loaded.result.memory)

\* two different answers were accumulated on one topic, in arrival order
C7_Witness ==
    /\ prog = "cli"
    /\ AllResponses(memory, "name") = <<Answers[1], Answers[2]>>
    /\ get_field_history(memory, "name") = "Jo Al"

---------------------------------------------------------------------------
(* C8 *)

\* C8: when the utterance is negative or the score is >= 7 while the current
\* topic is the last of the catalog, the pointer becomes the terminal sentinel
\* (it no longer names the last topic) and the closing message is emitted.
C8_LastTopicCompletes ==
    [][/\ (AppTurn /\ current_field = LastField) =>
             \A reply \in JudgeReplies :
                (/\ ChatInput(AppUtterance, reply)
                 /\ \/ AppNegative[AppUtterance]
                    \/ ScoreAtLeast7(MainVerdict(reply, current_field))) =>
                   /\ current_field' = None
                   /\ AppReply = ClosingMessage
       /\ (prog = "cli" /\ pc = "input" /\ current_field = LastField) =>
             \A response \in CliUtterances, reply \in JudgeReplies :
                (/\ CliInput(response, reply)
                 /\ \/ MainNegative[response]
                    \/ ScoreAtLeast7(MainVerdict(reply, current_field))) =>
                   /\ current_field' = None
                   /\ current_question' = CoveredEverything]_vars

---------------------------------------------------------------------------
(* C9 *)

\* C9: once the score of a topic has reached >= 7, the topic is never the current
\* topic in a later turn of the session, and no later turn of the session changes
\* its score, its value or its accumulator entry. Stated for the first session a
\* process serves.
C9_SatisfiedNeverRevisited ==
    [][(prog \in {"app", "cli"} /\ other_sessions = <<>> /\ other_sessions' = <<>>) =>
          \A f \in FieldSet :
             interview_form[f].satisfaction >= 7 =>
                /\ current_field # f
                /\ interview_form'[f] = interview_form[f]
                /\ AllResponses(memory', f) = AllResponses(memory, f)
                /\ get_field_history(memory', f) = get_field_history(memory, f)]_vars

---------------------------------------------------------------------------
(* C10 *)

\* a session that has just been created: the app before its first chat input; the
\* command line waiting for its first input (every pass of its loop either leaves
\* the first topic or accumulates the response)
NewlyCreated ==
    \/ prog = "app" /\ Len(messages) = 1
    \/ prog = "cli" /\ pc = "input" /\ current_field = Fields[1] /\ memory = NewMemory

\* C10: a newly created session has the first catalog topic as current topic,
\* every topic's score equal to 0, empty accumulators, and a transcript of exactly
\* one assistant turn whose text is the first topic's first follow-up prompt.
C10_NewSession ==
    NewlyCreated =>
       /\ current_field = Fields[1]
       /\ \A f \in FieldSet : interview_form[f].satisfaction = 0
       /\ memory = NewMemory
       /\ prog = "app" => messages = <<Message("assistant", FirstFollowUp(Fields[1]))>>
       /\ prog = "cli" => current_question = FirstFollowUp(Fields[1])

---------------------------------------------------------------------------
(* C11 *)

\* st.session_state.interview_form of a session: interview_form.copy() copies the
\* outer dict only, so the field dicts a session reads and writes are the field
\* dicts of main.interview_form, whichever session asks
SessionForm(session) == interview_form

\* C11: sessions share no mutable state: a turn processed in one session leaves
\* the per-topic values and scores of every other session of the process and the
\* module-level form unchanged, so every new session starts with all scores 0
\* (and the values of the initial form).
C11_SessionsShareNothing ==
    [][prog = "app" =>
          /\ AppTurn =>
                /\ \A i \in 1..Len(other_sessions) :
                      SessionForm(other_sessions[i])' = SessionForm(other_sessions[i])
                /\ interview_form' = interview_form
          /\ Len(other_sessions') > Len(other_sessions) =>
                SessionForm([messages |-> messages', memory |-> memory',
                             current_field |-> current_field'])' = InitialForm]_vars

---------------------------------------------------------------------------
(* C12 *)

\* C12: every utterance processed while a topic is current results in a non-empty
\* next assistant prompt, whatever the judge does: the app appends a non-empty
\* assistant message, and the loop of conduct_interview goes on to print a
\* non-empty question (it prints nothing else to the interviewee).
C12_AlwaysAPrompt ==
    [][/\ AppTurn => AppReply # ""
       /\ (prog = "cli" /\ pc = "input") =>
             \A response \in CliUtterances, reply \in JudgeReplies :
                CliInput(response, reply) => (pc' = "input" /\ current_question' # "")]_vars

---------------------------------------------------------------------------
(* C13 *)

---------------------------------------------------------------------------
(* C14 *)

\* the accumulator of the topic after the turn is the one before it with the
\* utterance added once at the end, and so is the composite answer the judge sees
AppendedOnce(field, utterance) ==
    /\ AllResponses(memory', field) = Append(AllResponses(memory, field), utterance)
    /\ get_field_history(memory', field)
          = join(Append(AllResponses(memory, field), utterance))

\* C14: each non-negative utterance u processed on topic t is appended to the
\* accumulator exactly once: after the turn all(t) is its previous value with the
\* single element u added at the end, and the composite answer sent to the judge
\* contains u once.
C14_AppendedExactlyOnce ==
    [][/\ (AppTurn /\ ~AppNegative[AppUtterance]) =>
             AppendedOnce(current_field, AppUtterance)
       /\ (prog = "cli" /\ pc = "input") =>
             \A response \in CliUtterances, reply \in JudgeReplies :
                (~MainNegative[response] /\ CliInput(response, reply)) =>
                   AppendedOnce(current_field, response)]_vars

---------------------------------------------------------------------------
(* C15 *)

\* the text of a form value: the str itself, the joined items of a skill list
\* (the empty list technical_skills starts with reads as the empty text)
TextOf(value) == IF value.type = "str" THEN value.v ELSE join(value.v)

\* C15: in every reachable state and for every topic t, the value stored in the
\* form is the accumulator's composite(t): the form value is never written
\* independently of the accumulator, the skip path and the initial state included.
C15_ValueIsComposite ==
    prog \in {"app", "cli"} =>
       \A f \in FieldSet : TextOf(interview_form[f].value) = get_field_history(memory, f)

---------------------------------------------------------------------------
(* C16: a judge reply that parses but lacks a required field is replaced by
   the default verdict (score 5, analysis "Error occurred during analysis",
   missing information "Error in evaluation", the topic's first follow-up);
   the turn does not crash and the topic's stored score becomes 5 *)

LacksRequired(reply) == reply.ok /\ RequiredKeys \ reply.dict.keys # {}

IsDefaultVerdict(verdict, field) ==
    /\ RequiredKeys \subseteq verdict.keys
    /\ verdict.satisfaction_score = 5
    /\ verdict.analysis = "Error occurred during analysis"
    /\ verdict.missing_info = "Error in evaluation"
    /\ verdict.follow_up_question = FirstFollowUp(field)

C16_MissingFieldGivesDefault ==
    [][/\ (prog = "evaluate_response" /\ evaluation'.called
            /\ evaluation'.field \in FieldSet /\ LacksRequired(evaluation'.reply)) =>
              IsDefaultVerdict(evaluation'.result, evaluation'.field)
       /\ (AppTurn /\ ~AppNegative[AppUtterance]) =>
              \A reply \in JudgeReplies :
                 (LacksRequired(reply) /\ ChatInput(AppUtterance, reply)) =>
                    /\ IsDefaultVerdict(MainVerdict(reply, current_field), current_field)
                    /\ interview_form'[current_field].satisfaction = 5
       /\ (prog = "cli" /\ pc = "input") =>
              \A response \in CliUtterances, reply \in JudgeReplies :
                 (~MainNegative[response] /\ LacksRequired(reply)
                  /\ CliInput(response, reply)) =>
                    /\ pc' = "input"
                    /\ IsDefaultVerdict(MainVerdict(reply, current_field), current_field)
                    /\ interview_form'[current_field].satisfaction = 5]_vars

---------------------------------------------------------------------------
(* C17: the judge-strategy detector returns true when the judge's output is
   the literal lowercase "true"; for any other output, and when the call
   fails, it returns what the keyword strategy returns on the utterance *)

C17_JudgeStrategyDetector ==
    negative.called =>
       IF negative.reply.ok /\ negative.reply.content = "true"
       THEN negative.utils
       ELSE negative.utils = negative.fallback

\* the outputs that read as "true" once trimmed and lower-cased
ReadsAsTrue == {"true", "True", " TRUE "}

(* C17, as the code has it: the detector returns true exactly when the
   judge's output, trimmed and lower-cased, is "true", and false for every
   other output whatever the utterance; only when the call fails does it
   return what the keyword strategy returns on the utterance *)
C17_JudgeDecidesUnlessCallFails ==
    negative.called =>
       IF negative.reply.ok
       THEN negative.utils = (negative.reply.content \in ReadsAsTrue)
       ELSE negative.utils = negative.fallback

\* the judge said "false" about an utterance the keywords call negative
C17_Witness ==
    /\ negative.called /\ negative.reply.ok /\ negative.reply.content = "false"
    /\ negative.fallback /\ ~negative.utils

---------------------------------------------------------------------------
(* C18: the keyword detector is true iff the lower-cased, trimmed utterance
   contains one of the ten indicators, and all the copies of the keyword
   detector classify every utterance alike *)

TenIndicators ==
    {"no", "none", "nothing", "don't have", "do not have", "nothing comes to mind",
     "haven't done any", "i don't", "no experience", "no projects"}

ContainsIndicator(response) ==
    \E indicator \in TenIndicators : Contains(strip(lower(response)), indicator)

C18_KeywordDetector ==
    negative.called =>
       /\ negative.app = ContainsIndicator(negative.response)
       /\ negative.main = ContainsIndicator(negative.response)
       /\ negative.fallback = ContainsIndicator(negative.response)
       /\ negative.app = negative.main
       /\ negative.main = negative.fallback

---------------------------------------------------------------------------
(* C19: when the judge scores a non-negative utterance on topic t with 0,
   t is incomplete and not skipped: the controller stays on t and asks a
   follow-up, and the status shown or persisted for t is not "skipped" *)

JudgedZero(reply) ==
    reply.ok /\ "satisfaction_score" \in reply.dict.keys /\ reply.dict.satisfaction_score = 0

C19_ZeroScoreIsIncomplete ==
    [][/\ (AppTurn /\ ~AppNegative[AppUtterance]) =>
              \A reply \in JudgeReplies :
                 (JudgedZero(reply) /\ ChatInput(AppUtterance, reply)) =>
                    /\ current_field' = current_field
                    /\ AppReply = reply.dict.follow_up_question
                    /\ sidebar_status(interview_form'[current_field].satisfaction) # "skipped"
       /\ (prog = "cli" /\ pc = "input") =>
              \A response \in CliUtterances, reply \in JudgeReplies :
                 (~MainNegative[response] /\ JudgedZero(reply) /\ CliInput(response, reply)) =>
                    /\ current_field' = current_field
                    /\ current_question' = reply.dict.follow_up_question
                    /\ json_file'.interview_data[current_field].status # "skipped"]_vars

---------------------------------------------------------------------------
(* C20: every topic's stored satisfaction score is an integer in 0..10,
   whatever score the judge's reply carries, and every verdict an evaluator
   returns has a score in 1..10 *)

C20_ScoresInRange ==
    [][/\ prog \in {"app", "cli"} =>
              \A f \in FieldSet : interview_form'[f].satisfaction \in 0..10
       /\ (prog = "evaluate_response" /\ evaluation'.called) =>
              evaluation'.result.satisfaction_score \in 1..10
       /\ (AppTurn /\ ~AppNegative[AppUtterance]) =>
              \A reply \in JudgeReplies :
                 ChatInput(AppUtterance, reply) =>
                    LET verdict == evaluate_response(reply, AppUtterance, current_field,
                                                     memory).evaluation
                    IN  /\ "satisfaction_score" \in verdict.keys
                        /\ verdict.satisfaction_score \in 1..10
       /\ (prog = "cli" /\ pc = "input") =>
              \A response \in CliUtterances, reply \in JudgeReplies :
                 (~MainNegative[response] /\ CliInput(response, reply)) =>
                    LET verdict == evaluate_response(reply, response, current_field,
                                                     memory).evaluation
                    IN  /\ "satisfaction_score" \in verdict.keys
                        /\ verdict.satisfaction_score \in 1..10]_vars

---------------------------------------------------------------------------
(* C21: a persistence failure during a turn does not abort the turn: the
   session in memory keeps the turn's updates (score, value, accumulator),
   the topic pointer moves or stays exactly as it would without the failure,
   and the next prompt is still produced *)

C21_SaveFailureDoesNotAbort ==
    [][(prog = "cli" /\ pc = "input") =>
          \A response \in CliUtterances, reply \in JudgeReplies, failing \in SaveCalls :
             LET failed == conduct_turn_save_fails(reply, response, interview_form, memory,
                                                   current_field, current_question,
                                                   json_file, failing)
                 normal == conduct_turn(reply, response, interview_form, memory,
                                        current_field, current_question, json_file)
             IN  (/\ CliSaveFails
                  /\ interview_form' = failed.interview_form
                  /\ memory' = failed.memory
                  /\ json_file' = failed.json_file) =>
                    /\ interview_form' = normal.interview_form
                    /\ memory' = normal.memory
                    /\ current_field' = normal.current_field
                    /\ current_question' = normal.current_question
                    /\ pc' = normal.pc]_vars

---------------------------------------------------------------------------
(* C22: on every advance from topic t the new current topic is the immediate
   successor of t in the catalog (no topic is jumped over, whatever its
   score), or the terminal sentinel when t is the last topic; alike in
   process_response, conduct_interview and determine_next_question *)

\* whenever the pointer of a session changes, it changes to the successor
StepsToSuccessor ==
    (prog \in {"app", "cli"} /\ other_sessions' = other_sessions
     /\ current_field' # current_field) =>
        current_field' = NextField(current_field)

\* a turn that advances: a refusal, or an answer the judge scores 7 or more
AdvancingTurnReachesSuccessor ==
    /\ AppTurn =>
          \A reply \in JudgeReplies :
             (/\ ChatInput(AppUtterance, reply)
              /\ \/ AppNegative[AppUtterance]
                 \/ ScoreAtLeast7(MainVerdict(reply, current_field))) =>
                current_field' = NextField(current_field)
    /\ (prog = "cli" /\ pc = "input") =>
          \A response \in CliUtterances, reply \in JudgeReplies :
             (/\ CliInput(response, reply)
              /\ \/ MainNegative[response]
                 \/ ScoreAtLeast7(MainVerdict(reply, current_field))) =>
                current_field' = NextField(current_field)

\* determine_next_question: a field other than the one it was called for is the successor
ReturnsSuccessor ==
    (/\ next_question'.called
     /\ next_question'.current_field # None
     /\ next_question'.result.field # next_question'.current_field) =>
        next_question'.result.field = NextField(next_question'.current_field)

C22_AdvanceToImmediateSuccessor ==
    [][StepsToSuccessor /\ AdvancingTurnReachesSuccessor /\ ReturnsSuccessor]_vars

---------------------------------------------------------------------------
(* C23: once the closing message has been emitted, no further utterance
   causes a topic transition: the current-topic pointer of the session never
   changes again, and no later utterance is answered by moving on to a topic;
   conduct_interview reads no further utterance once its loop has ended *)

\* the closing message is in the transcript
Closed(msgs) == \E i \in 1..Len(msgs) : msgs[i] = Message("assistant", ClosingMessage)

\* the reply announces a topic
Announces(content) ==
    \E f \in FieldSet, prefix \in {"I understand.", "Great!"} : content = MoveOn(prefix, f)

---------------------------------------------------------------------------
(* C24: a session restored from the persisted record resumes at the current
   topic it had when it was persisted: the pointer after persist-then-restore
   equals the pointer before (the record stores it or determines it) *)

C24_ResumesAtSameTopic ==
    /\ prog = "app" =>
          initialize_current_field(
              Restored(save_chat_history(messages, interview_form, memory))) = current_field
    /\ (prog = "cli" /\ json_file.written) =>
          /\ "current_field" \in DOMAIN json_file
          /\ json_file.current_field = current_field

---------------------------------------------------------------------------
(* C25: the transcript is append-only and strictly alternating: it starts
   with an assistant turn, and every user turn appended is followed by one
   assistant turn before the next user turn is accepted, so that no user
   turn is left without a reply *)

\* assistant, user, assistant, ..., assistant
Alternating(msgs) ==
    /\ Len(msgs) % 2 = 1
    /\ \A i \in 1..Len(msgs) :
          msgs[i].role = IF i % 2 = 1 THEN "assistant" ELSE "user"

IsPrefix(old, new) == Len(old) <= Len(new) /\ SubSeq(new, 1, Len(old)) = old

C25_TranscriptAlternates ==
    [][prog = "app" =>
          /\ Alternating(messages)
          /\ Alternating(messages')
          /\ other_sessions' = other_sessions => IsPrefix(messages, messages')
          /\ \A i \in 1..Len(other_sessions) : other_sessions'[i] = other_sessions[i]]_vars

---------------------------------------------------------------------------
(* C26: append(t, u) changes only topic t's accumulator entry: for every
   other topic all(t') and composite(t') are unchanged; and a turn processed
   on current topic t leaves the score and the value of every other topic
   unchanged *)

\* the topics whose accumulator entry differs between two memories
TouchedTopics(mem, mem1) ==
    {f \in FieldSet : \/ AllResponses(mem1, f) # AllResponses(mem, f)
                      \/ get_field_history(mem1, f) # get_field_history(mem, f)}

C26_OnlyTheNamedTopic ==
    [][/\ (prog \in {"app", "cli"} /\ other_sessions' = other_sessions) =>
             /\ TouchedTopics(memory, memory') \subseteq {current_field}
             /\ \A f \in FieldSet \ {current_field} : interview_form'[f] = interview_form[f]
       /\ prog = "chat_history" =>
             \A field \in StoreFields, response \in StoreResponses :
                memory' = utils_add_response(memory, field, response) =>
                   /\ TouchedTopics(memory, memory') = {field}
                   /\ AllResponses(memory', field)
                         = Append(AllResponses(memory, field), response)
       /\ (prog = "evaluate_response" /\ evaluation'.called) =>
             TouchedTopics(memory, memory') = {}]_vars

\* a turn appended to one topic while another topic held responses, a score and a value
C26_Witness ==
    /\ prog \in {"app", "cli"}
    /\ AllResponses(memory, "name") # <<>>
    /\ interview_form["name"].satisfaction >= 7
    /\ AllResponses(memory, "current_role") # <<>>
    /\ interview_form["current_role"].satisfaction > 0

====
